---------------------------- MODULE Spec2Model ----------------------------
(***************************************************************************)
(* EncryptedMapGame: a ledger contract that keeps one encrypted 2D         *)
(* position per address, the ciphertext access-control list the contract   *)
(* writes through FHE.allow / FHE.allowThis, and the relayer-side user     *)
(* decryption the hardhat task and the tests go through.                   *)
(*                                                                         *)
(* A ciphertext handle is a natural number; handle 0 is the zero bytes32   *)
(* of a storage slot that was never written.  plain[h] is the plaintext    *)
(* behind handle h (known to the coprocessor only) and acl[h] the set of   *)
(* addresses allowed on h.                                                 *)
(***************************************************************************)
EXTENDS Naturals, Integers, Sequences, FiniteSets, TLC

VARIABLES
    players,    \* _players: address -> PlayerPosition {x, y, active}
    plain,      \* coprocessor: handle -> 8-bit plaintext
    acl,        \* ACL contract: handle -> set of allowed addresses
    events,     \* the contract's event log
    last,       \* the call made by the last step and its outcome
    wallet,     \* GridGameApp: useAccount().address and useEthersSigner()
    instance,   \* GridGameApp: useZamaInstance().instance is set
    cache,      \* GridGameApp: data of the two useReadContract queries
    ui,         \* GridGameApp: the useState values
    dec,        \* the handleDecrypt invocation in flight and its locals
    env,        \* keypairs generated, messages built, relayer requests sent
    clock,      \* Date.now() in seconds
    jn,         \* the handleJoin invocation in flight and its locals
    mv          \* the handleMove invocation in flight and its locals

vars == <<players, plain, acl, events, last, wallet, instance, cache, ui, dec, env, clock,
          jn, mv>>
ledgerVars == <<players, plain, acl, events>>
clientVars == <<wallet, instance, cache, ui, dec, env, clock, jn, mv>>

---------------------------------------------------------------------------
(* Program constants *)

MIN_COORDINATE == 1
MAX_COORDINATE == 10

\* 2^8: the width of euint8
Uint8Mod == 256
\* 2^16: a euint32 is two 16-bit halves
Uint16Mod == 65536

(* Bounds of the model *)

\* successful joinGame/move calls explored in a behaviour of Spec
MaxWrites == 3
\* handleDecrypt invocations that pass their checks in a behaviour of SpecClient
MaxDecrypts == 2
\* seconds the clock advances in a behaviour of SpecClient
MaxClock == 1
\* hexadecimal digits of a signature string in SpecSignature
MaxSigLen == 3
\* ledger writes, done or pending, that a behaviour of SpecSession stays below
MaxSessionWrites == 2

---------------------------------------------------------------------------
(* Addresses *)

THIS == "ledger"                    \* address(this)
OTHER_CONTRACT == "otherContract"   \* some other contract address
Address == {"alice", "bob"}         \* externally owned accounts

Byte == 0 .. (Uint8Mod - 1)

\* values FHE.randEuint8 is made to return in Spec: 9 -> 10, 255 -> 6
DrawSamples == {9, 255}
\* plaintexts the client encrypts in Spec: below, inside and above the grid
InputSamples == {0, 7, 42}
\* (contractAddress, userAddress) pairs an input proof can be bound to
ProofBindings == {THIS, OTHER_CONTRACT} \X Address

NoHandle == 0
Handles == 1 .. Len(plain)

---------------------------------------------------------------------------
(* The encrypted-integer primitive, on plaintexts *)

FHE_asEuint32(v) == v
FHE_asEuint8(v) == v % Uint8Mod
FHE_rem(a, m) == a % m
\* s modulo 2^32, half by half
Wrap32(s) == ((s \div Uint16Mod) % Uint16Mod) * Uint16Mod + (s % Uint16Mod)
FHE_add32(a, b) == Wrap32(a + b)
FHE_lt(a, b) == a < b
FHE_gt(a, b) == a > b
FHE_select(c, a, b) == IF c THEN a ELSE b

\* FHE.allow(handle, who) on an ACL map
FHE_allow(m, h, who) == [m EXCEPT ![h] = @ \cup {who}]

\* FHE.fromExternal: the input proof verifies only for the contract and the
\* user the client encryptor bound it to
ProofValid(binding, sender) == binding = <<THIS, sender>>

\* the relayer's check for a user decryption of handle h
UserDecryptAllowed(h, contract, user) ==
    /\ h \in Handles
    /\ user \in acl[h]
    /\ contract \in acl[h]

---------------------------------------------------------------------------
(* Private functions of the contract *)

\* the random coordinate without the shift by MIN_COORDINATE
_randomCoordinate_noShift(randomValue) ==
    LET randomAs32 == FHE_asEuint32(randomValue)
        bounded == FHE_rem(randomAs32, MAX_COORDINATE)
    IN  FHE_asEuint8(bounded)

\* the random coordinate with the remainder taken by MAX_COORDINATE + 1
_randomCoordinate_remEleven(randomValue) ==
    LET randomAs32 == FHE_asEuint32(randomValue)
        bounded == FHE_rem(randomAs32, MAX_COORDINATE + 1)
        shifted == FHE_add32(bounded, FHE_asEuint32(MIN_COORDINATE))
    IN  FHE_asEuint8(shifted)

_randomCoordinate(randomValue) ==
    LET randomAs32 == FHE_asEuint32(randomValue)
        bounded == FHE_rem(randomAs32, MAX_COORDINATE)
        shifted == FHE_add32(bounded, FHE_asEuint32(MIN_COORDINATE))
    IN  FHE_asEuint8(shifted)

\* the clamp whose first comparison is made against maxValue
_clampCoordinate_wrongBound(coordinate) ==
    LET minValue == FHE_asEuint8(MIN_COORDINATE)
        maxValue == FHE_asEuint8(MAX_COORDINATE)
        belowMinimum == FHE_lt(coordinate, maxValue)
        boundedMin == FHE_select(belowMinimum, minValue, coordinate)
        aboveMaximum == FHE_gt(boundedMin, maxValue)
    IN  FHE_select(aboveMaximum, maxValue, boundedMin)

\* the clamp with the operands of the second select exchanged
_clampCoordinate_swapped(coordinate) ==
    LET minValue == FHE_asEuint8(MIN_COORDINATE)
        maxValue == FHE_asEuint8(MAX_COORDINATE)
        belowMinimum == FHE_lt(coordinate, minValue)
        boundedMin == FHE_select(belowMinimum, minValue, coordinate)
        aboveMaximum == FHE_gt(boundedMin, maxValue)
    IN  FHE_select(aboveMaximum, boundedMin, maxValue)

\* the clamp without its upper bound
_clampCoordinate_noMax(coordinate) ==
    LET minValue == FHE_asEuint8(MIN_COORDINATE)
        belowMinimum == FHE_lt(coordinate, minValue)
    IN  FHE_select(belowMinimum, minValue, coordinate)

_clampCoordinate(coordinate) ==
    LET minValue == FHE_asEuint8(MIN_COORDINATE)
        maxValue == FHE_asEuint8(MAX_COORDINATE)
        belowMinimum == FHE_lt(coordinate, minValue)
        boundedMin == FHE_select(belowMinimum, minValue, coordinate)
        aboveMaximum == FHE_gt(boundedMin, maxValue)
    IN  FHE_select(aboveMaximum, maxValue, boundedMin)

\* the grant that forgets FHE.allow(player.y, owner)
_grantAccess_noOwnerY(m, hx, hy, owner) ==
    FHE_allow(FHE_allow(FHE_allow(m, hx, THIS), hy, THIS), hx, owner)

\* access granted to every account instead of the owner alone
_grantAccess_everyone(m, hx, hy, owner) ==
    [m EXCEPT ![hx] = @ \cup {THIS} \cup Address, ![hy] = @ \cup {THIS} \cup Address]

\* the ACL after _grantAccess on the handles hx, hy
_grantAccess(m, hx, hy, owner) ==
    FHE_allow(FHE_allow(FHE_allow(FHE_allow(m, hx, THIS), hy, THIS), hx, owner), hy, owner)

---------------------------------------------------------------------------
(* Calls *)

NoCall ==
    [op |-> "none", sender |-> "none", target |-> "none", status |-> "ok",
     in |-> <<>>, proof |-> <<>>, out |-> <<>>]

Call(op, sender, target, status, in, proof, out) ==
    [op |-> op, sender |-> sender, target |-> target, status |-> status,
     in |-> in, proof |-> proof, out |-> out]

\* the ledger's state as one value
Ledger == [players |-> players, plain |-> plain, acl |-> acl, events |-> events]

\* the transaction commits: the ledger becomes L
Commit(L) ==
    /\ players' = L.players
    /\ plain' = L.plain
    /\ acl' = L.acl
    /\ events' = L.events

\* a reverted transaction or a failed view call: no state change
Revert(op, sender, target, error, proof) ==
    /\ last' = Call(op, sender, target, error, <<>>, proof, <<>>)
    /\ UNCHANGED ledgerVars

\* the position stored after emptying the access lists of the handles it
\* replaces
StorePosition_revokeOld(L, sender, vx, vy, eventName) ==
    LET hx == Len(L.plain) + 1
        hy == Len(L.plain) + 2
        old == {L.players[sender].x, L.players[sender].y}
        kept == [h \in 1 .. Len(L.acl) |-> IF h \in old THEN {} ELSE L.acl[h]]
    IN  [players |-> [L.players EXCEPT ![sender] = [x |-> hx, y |-> hy, active |-> TRUE]],
         plain |-> L.plain \o <<vx, vy>>,
         acl |-> _grantAccess(kept \o <<{}, {}>>, hx, hy, sender),
         events |-> Append(L.events, [name |-> eventName, player |-> sender])]

\* the position written through one slot shared by every player
StorePosition_sharedSlot(L, sender, vx, vy, eventName) ==
    LET hx == Len(L.plain) + 1
        hy == Len(L.plain) + 2
    IN  [players |-> [a \in Address |->
                        IF a = sender
                        THEN [x |-> hx, y |-> hy, active |-> TRUE]
                        ELSE [L.players[a] EXCEPT !.x = hx, !.y = hy]],
         plain |-> L.plain \o <<vx, vy>>,
         acl |-> _grantAccess(L.acl \o <<{}, {}>>, hx, hy, sender),
         events |-> Append(L.events, [name |-> eventName, player |-> sender])]

\* two fresh ciphertexts (the results of the FHE operations) become the
\* position of sender, access is granted on them and the event is emitted
StorePosition(L, sender, vx, vy, eventName) ==
    LET hx == Len(L.plain) + 1
        hy == Len(L.plain) + 2
    IN  [players |-> [L.players EXCEPT ![sender] = [x |-> hx, y |-> hy, active |-> TRUE]],
         plain |-> L.plain \o <<vx, vy>>,
         acl |-> _grantAccess(L.acl \o <<{}, {}>>, hx, hy, sender),
         events |-> Append(L.events, [name |-> eventName, player |-> sender])]

\* the ledger after a joinGame by sender that does not revert
\* a join that stores the position and leaves the flag down
joinGameEffect_noFlag(L, sender, r1, r2) ==
    LET S == StorePosition(L, sender, _randomCoordinate(r1), _randomCoordinate(r2),
                           "PlayerJoined")
    IN  [S EXCEPT !.players[sender].active = FALSE]

joinGameEffect(L, sender, r1, r2) ==
    StorePosition(L, sender, _randomCoordinate(r1), _randomCoordinate(r2), "PlayerJoined")

\* a move that writes a whole new struct, leaving active at its default
moveEffect_reset(L, sender, x, y) ==
    LET S == StorePosition(L, sender, _clampCoordinate(x), _clampCoordinate(y), "PlayerMoved")
    IN  [S EXCEPT !.players[sender].active = FALSE]

\* a move that emits the event of joinGame
moveEffect_joinedEvent(L, sender, x, y) ==
    StorePosition(L, sender, _clampCoordinate(x), _clampCoordinate(y), "PlayerJoined")

\* a move whose event carries the stored x coordinate
moveEffect_logsCoordinate(L, sender, x, y) ==
    LET S == StorePosition(L, sender, _clampCoordinate(x), _clampCoordinate(y), "PlayerMoved")
    IN  [S EXCEPT !.events = Append(L.events,
             [name |-> "PlayerMoved", player |-> sender, x |-> _clampCoordinate(x)])]

\* the ledger after a move by sender that does not revert
moveEffect(L, sender, x, y) ==
    StorePosition(L, sender, _clampCoordinate(x), _clampCoordinate(y), "PlayerMoved")

\* joinGame without the PlayerAlreadyJoined check
joinGame_noCheck(sender, Draws) ==
    \E r1 \in Draws, r2 \in Draws :
        /\ Commit(joinGameEffect(Ledger, sender, r1, r2))
        /\ last' = Call("joinGame", sender, sender, "ok", <<r1, r2>>, <<>>, <<>>)

joinGame(sender, Draws) ==
    IF players[sender].active
    THEN Revert("joinGame", sender, sender, "PlayerAlreadyJoined", <<>>)
    ELSE \E r1 \in Draws, r2 \in Draws :
            /\ Commit(joinGameEffect(Ledger, sender, r1, r2))
            /\ last' = Call("joinGame", sender, sender, "ok", <<r1, r2>>, <<>>, <<>>)

\* move without the PlayerNotRegistered check
move_noCheck(sender, Inputs, Bindings) ==
    \E binding \in Bindings :
        IF ~ProofValid(binding, sender)
        THEN Revert("move", sender, sender, "InvalidProof", binding)
        ELSE \E x \in Inputs, y \in Inputs :
                /\ Commit(moveEffect(Ledger, sender, x, y))
                /\ last' = Call("move", sender, sender, "ok", <<x, y>>, binding, <<>>)

\* move that uses the submitted ciphertexts without FHE.fromExternal
move_unverified(sender, Inputs, Bindings) ==
    IF ~players[sender].active
    THEN Revert("move", sender, sender, "PlayerNotRegistered", <<>>)
    ELSE \E binding \in Bindings, x \in Inputs, y \in Inputs :
            /\ Commit(moveEffect(Ledger, sender, x, y))
            /\ last' = Call("move", sender, sender, "ok", <<x, y>>, binding, <<>>)

move(sender, Inputs, Bindings) ==
    IF ~players[sender].active
    THEN Revert("move", sender, sender, "PlayerNotRegistered", <<>>)
    ELSE \E binding \in Bindings :
            IF ~ProofValid(binding, sender)
            THEN Revert("move", sender, sender, "InvalidProof", binding)
            ELSE \E x \in Inputs, y \in Inputs :
                    /\ Commit(moveEffect(Ledger, sender, x, y))
                    /\ last' = Call("move", sender, sender, "ok", <<x, y>>, binding, <<>>)

\* hasJoined that looks up the caller instead of the player asked for
hasJoined_ofCaller(caller, player) ==
    /\ last' = Call("hasJoined", caller, player, "ok", <<>>, <<>>,
                    <<players[caller].active>>)
    /\ UNCHANGED ledgerVars

hasJoined(caller, player) ==
    /\ last' = Call("hasJoined", caller, player, "ok", <<>>, <<>>,
                    <<players[player].active>>)
    /\ UNCHANGED ledgerVars

\* getPlayerPosition that serves the player itself only
getPlayerPosition_ownerOnly(caller, player) ==
    IF ~players[player].active \/ caller # player
    THEN Revert("getPlayerPosition", caller, player, "PlayerNotRegistered", <<>>)
    ELSE /\ last' = Call("getPlayerPosition", caller, player, "ok", <<>>, <<>>,
                         <<players[player].x, players[player].y>>)
         /\ UNCHANGED ledgerVars

getPlayerPosition(caller, player) ==
    IF ~players[player].active
    THEN Revert("getPlayerPosition", caller, player, "PlayerNotRegistered", <<>>)
    ELSE /\ last' = Call("getPlayerPosition", caller, player, "ok", <<>>, <<>>,
                         <<players[player].x, players[player].y>>)
         /\ UNCHANGED ledgerVars

gridBounds_zeroBased(caller) ==
    /\ last' = Call("gridBounds", caller, THIS, "ok", <<>>, <<>>,
                    <<0, MAX_COORDINATE>>)
    /\ UNCHANGED ledgerVars

gridBounds(caller) ==
    /\ last' = Call("gridBounds", caller, THIS, "ok", <<>>, <<>>,
                    <<MIN_COORDINATE, MAX_COORDINATE>>)
    /\ UNCHANGED ledgerVars

\* task:decrypt-position run by signer for playerAddress
decryptPosition(signer, playerAddress) ==
    IF ~players[playerAddress].active
    THEN Revert("decryptPosition", signer, playerAddress, "PlayerNotRegistered", <<>>)
    ELSE LET hx == players[playerAddress].x
             hy == players[playerAddress].y
         IN  IF UserDecryptAllowed(hx, THIS, signer) /\ UserDecryptAllowed(hy, THIS, signer)
             THEN /\ last' = Call("decryptPosition", signer, playerAddress, "ok",
                                  <<hx, hy>>, <<>>, <<plain[hx], plain[hy]>>)
                  /\ UNCHANGED ledgerVars
             ELSE /\ last' = Call("decryptPosition", signer, playerAddress,
                                  "DecryptionFailed", <<hx, hy>>, <<>>, <<>>)
                  /\ UNCHANGED ledgerVars

---------------------------------------------------------------------------
(* The client session before anything happened *)

NoAddress == "none"
NoError == "none"

\* no handleDecrypt runs: none of its locals exists
IdleDecrypt == [pc |-> "idle"]
\* no handleJoin runs, no handleMove runs
IdleJoin == [pc |-> "idle"]
IdleMove == [pc |-> "idle"]

ClientInit ==
    /\ wallet = [address |-> NoAddress, signerPromise |-> FALSE]
    /\ instance = FALSE
    /\ cache = [joined |-> <<>>, encryptedPosition |-> <<>>]
    /\ ui = [isJoining |-> FALSE, isMoving |-> FALSE, isDecrypting |-> FALSE,
             statusMessage |-> "", txError |-> NoError, decryptedPosition |-> <<>>]
    /\ dec = IdleDecrypt
    /\ env = [keypairs |-> 0, messages |-> <<>>, requests |-> <<>>]
    /\ clock = 0
    /\ jn = IdleJoin
    /\ mv = IdleMove

---------------------------------------------------------------------------
(* The encryption session (SDK instance), the wallet and the relayer *)

\* CONTRACT_ADDRESS is the deployed ledger, not the zero address
CONTRACT_ADDRESS == THIS
isContractConfigured == CONTRACT_ADDRESS # "0x0000000000000000000000000000000000000000"

SecondsPerDay == 86400

\* instance.generateKeypair(): the n-th keypair of the session
generateKeypair(n) == [publicKey |-> n, privateKey |-> n]

\* instance.createEIP712(publicKey, contractAddresses, startTimeStamp, durationDays)
createEIP712(publicKey, contractAddresses, startTimeStamp, durationDays) ==
    [publicKey |-> publicKey, contractAddresses |-> contractAddresses,
     startTimeStamp |-> startTimeStamp, durationDays |-> durationDays]

\* signer.signTypedData: a signature by account over message, returned as
\* the string text
signTypedData(account, message, text) ==
    [text |-> text, by |-> account, message |-> message]

\* the string starts with 0x
StartsWith0x(s) == Len(s) >= 2 /\ s[1] = "0" /\ s[2] = "x"

\* the positions at which 0x occurs in s
Occurrences0x(s) == {i \in 1 .. Len(s) - 1 : s[i] = "0" /\ s[i + 1] = "x"}

replace0x_slice(s) == SubSeq(s, 3, Len(s))

\* s.replace('0x', ''): s without the first occurrence of 0x, wherever it is
replace0x(s) ==
    IF Occurrences0x(s) = {}
    THEN s
    ELSE LET i == CHOOSE k \in Occurrences0x(s) : \A j \in Occurrences0x(s) : k <= j
         IN  SubSeq(s, 1, i - 1) \o SubSeq(s, i + 2, Len(s))

RelayerAccepts_noKeyCheck(req) ==
    /\ ~StartsWith0x(req.signature.text)
    /\ req.signature.by = req.userAddress
    /\ req.privateKey = req.publicKey
    /\ req.startTimeStamp <= clock
    /\ clock <= req.startTimeStamp + req.durationDays * SecondsPerDay
    /\ \A i \in 1 .. Len(req.handleContractPairs) :
           /\ req.handleContractPairs[i].contractAddress \in req.contractAddresses
           /\ UserDecryptAllowed(req.handleContractPairs[i].handle,
                                 req.handleContractPairs[i].contractAddress,
                                 req.userAddress)

\* the relayer's checks on a user-decryption request: the signature is the
\* requester's over exactly the submitted key, scope, start and duration, the
\* private key is the pair of the public key, the grant is in its validity
\* window, and the requester is allowed on every handle
RelayerAccepts(req) ==
    /\ ~StartsWith0x(req.signature.text)
    /\ req.signature.by = req.userAddress
    /\ req.signature.message =
           createEIP712(req.publicKey, req.contractAddresses, req.startTimeStamp,
                        req.durationDays)
    /\ req.privateKey = req.publicKey
    /\ req.startTimeStamp <= clock
    /\ clock <= req.startTimeStamp + req.durationDays * SecondsPerDay
    /\ \A i \in 1 .. Len(req.handleContractPairs) :
           /\ req.handleContractPairs[i].contractAddress \in req.contractAddresses
           /\ UserDecryptAllowed(req.handleContractPairs[i].handle,
                                 req.handleContractPairs[i].contractAddress,
                                 req.userAddress)

\* Number(decrypted[handle]) for an 8-bit plaintext returned as a bigint
Number(v) == v

---------------------------------------------------------------------------
(* GridGameApp: the session's surroundings *)

\* the wallet connects, or switches to another account: both queries get a
\* new key and have no data yet, and the signer of the old account is gone
ConnectWallet(a) ==
    /\ a # wallet.address
    /\ wallet' = [address |-> a, signerPromise |-> FALSE]
    /\ cache' = [joined |-> <<>>, encryptedPosition |-> <<>>]
    /\ UNCHANGED <<ledgerVars, last, instance, ui, dec, env, clock, jn, mv>>

\* useEthersSigner has a wallet client to wrap
SignerReady ==
    /\ wallet.address # NoAddress
    /\ ~wallet.signerPromise
    /\ wallet' = [wallet EXCEPT !.signerPromise = TRUE]
    /\ UNCHANGED <<ledgerVars, last, instance, cache, ui, dec, env, clock, jn, mv>>

\* useZamaInstance finished initialising
InstanceReady ==
    /\ ~instance
    /\ instance' = TRUE
    /\ UNCHANGED <<ledgerVars, last, wallet, cache, ui, dec, env, clock, jn, mv>>

\* the hasJoined query (enabled once an address is connected) fetches
FetchJoined ==
    /\ wallet.address # NoAddress
    /\ isContractConfigured
    /\ hasJoined(wallet.address, wallet.address)
    /\ cache' = [cache EXCEPT !.joined = last'.out]
    /\ UNCHANGED <<wallet, instance, ui, dec, env, clock, jn, mv>>

\* the getPlayerPosition query (enabled once joined is true) fetches
FetchPosition ==
    /\ wallet.address # NoAddress
    /\ cache.joined = <<TRUE>>
    /\ isContractConfigured
    /\ getPlayerPosition(wallet.address, wallet.address)
    /\ cache' = [cache EXCEPT !.encryptedPosition =
                     IF last'.status = "ok" THEN last'.out ELSE @]
    /\ UNCHANGED <<wallet, instance, ui, dec, env, clock, jn, mv>>

Tick ==
    /\ clock < MaxClock
    /\ clock' = clock + 1
    /\ UNCHANGED <<ledgerVars, last, wallet, instance, cache, ui, dec, env, jn, mv>>

\* contractHandles
contractHandles ==
    [x |-> IF Len(cache.encryptedPosition) >= 1 THEN <<cache.encryptedPosition[1]>> ELSE <<>>,
     y |-> IF Len(cache.encryptedPosition) >= 2 THEN <<cache.encryptedPosition[2]>> ELSE <<>>]

---------------------------------------------------------------------------
(* GridGameApp.handleDecrypt, one action per run between two awaits *)

DecryptFails_clearsPosition(message) ==
    /\ ui' = [ui EXCEPT !.txError = message, !.statusMessage = "", !.isDecrypting = FALSE,
                        !.decryptedPosition = <<>>]
    /\ dec' = IdleDecrypt

\* catch and finally of handleDecrypt
DecryptFails(message) ==
    /\ ui' = [ui EXCEPT !.txError = message, !.statusMessage = "", !.isDecrypting = FALSE]
    /\ dec' = IdleDecrypt

keypair_memoized == generateKeypair(1)

\* const keypair = instance.generateKeypair(), run by every invocation that
\* passes the checks
keypair == generateKeypair(env.keypairs + 1)

MissingContext_noSigner ==
    \/ ~instance
    \/ wallet.address = NoAddress
    \/ contractHandles.x = <<>>
    \/ contractHandles.y = <<>>

\* !instance || !address || !contractHandles.x || !contractHandles.y || !signerPromise
MissingContext ==
    \/ ~instance
    \/ wallet.address = NoAddress
    \/ contractHandles.x = <<>>
    \/ contractHandles.y = <<>>
    \/ ~wallet.signerPromise

\* the invocation as a call record: who asked, and how the checks ended
Invoked(status) == Call("handleDecrypt", wallet.address, wallet.address, status, <<>>, <<>>, <<>>)

\* from the invocation to `await signerPromise`. The Decrypt button is
\* disabled while isDecrypting, so one invocation runs at a time; it is also
\* disabled without handles or instance, which the handler checks again
\* itself: the handler is modelled for every idle state.
handleDecrypt ==
    /\ dec.pc = "idle"
    /\ IF MissingContext
       THEN /\ ui' = [ui EXCEPT !.txError = "Missing encryption context for decryption."]
            /\ last' = Invoked("MissingContext")
            /\ UNCHANGED <<dec, env>>
       ELSE IF ~isContractConfigured
       THEN /\ ui' = [ui EXCEPT !.txError =
                         "Deploy EncryptedMapGame to Sepolia and update CONTRACT_ADDRESS."]
            /\ last' = Invoked("NotConfigured")
            /\ UNCHANGED <<dec, env>>
       ELSE LET contractAddresses == {CONTRACT_ADDRESS}
                startTimeStamp == clock
                durationDays == 10
                eip712 == createEIP712(keypair.publicKey, contractAddresses,
                                       startTimeStamp, durationDays)
            IN  /\ env.keypairs < MaxDecrypts
                /\ last' = Invoked("started")
                /\ ui' = [ui EXCEPT !.isDecrypting = TRUE, !.txError = NoError,
                                    !.statusMessage = "Preparing secure channel..."]
                /\ env' = [env EXCEPT !.keypairs = @ + 1,
                                      !.messages = Append(@, eip712)]
                /\ dec' = [pc |-> "awaitSigner", address |-> wallet.address,
                           handles |-> contractHandles.x \o contractHandles.y,
                           keypair |-> keypair, startTimeStamp |-> startTimeStamp,
                           durationDays |-> durationDays,
                           contractAddresses |-> contractAddresses,
                           eip712 |-> eip712, signature |-> <<>>]
    /\ UNCHANGED <<ledgerVars, wallet, instance, cache, clock, jn, mv>>

\* `await signerPromise` resolves: with a signer, signTypedData is called
handleDecrypt_signer ==
    /\ dec.pc = "awaitSigner"
    /\ \/ /\ dec' = [dec EXCEPT !.pc = "awaitSignature"]
          /\ UNCHANGED ui
       \/ DecryptFails("Wallet signer is missing")
    /\ UNCHANGED <<ledgerVars, last, wallet, instance, cache, env, clock, jn, mv>>

\* the hexadecimal digits the signature strings are made of, and the strings
\* of at most MaxSigLen of them
HexSamples == {"0", "1", "a", "f"}
HexStrings == UNION {[1 .. n -> HexSamples] : n \in 0 .. MaxSigLen}

\* what a signer returns: a hex string, with the 0x prefix (ethers) or bare
AllSignerTexts == HexStrings \cup {<<"0", "x">> \o s : s \in HexStrings}

\* the one signature string of the sessions of SpecClient
SignerTexts == {<<"0", "x", "1", "f">>}

\* the messages a wallet may answer with a signature over: the one it was
\* given, or one it signed for an earlier request
Signable == {dec.eip712} \cup {env.messages[i] : i \in 1 .. Len(env.messages)}

handleContractPairs ==
    <<[handle |-> dec.handles[1], contractAddress |-> CONTRACT_ADDRESS],
      [handle |-> dec.handles[2], contractAddress |-> CONTRACT_ADDRESS]>>

userDecryptRequest_currentSession(signature) ==
    [handleContractPairs |-> handleContractPairs,
     privateKey |-> dec.keypair.privateKey,
     publicKey |-> dec.keypair.publicKey,
     signature |-> [signature EXCEPT !.text = replace0x(@)],
     contractAddresses |-> dec.contractAddresses,
     userAddress |-> wallet.address,
     startTimeStamp |-> clock,
     durationDays |-> dec.durationDays]

\* the arguments of instance.userDecrypt, all of them locals of the invocation
userDecryptRequest(signature) ==
    [handleContractPairs |-> handleContractPairs,
     privateKey |-> dec.keypair.privateKey,
     publicKey |-> dec.keypair.publicKey,
     signature |-> [signature EXCEPT !.text = replace0x(@)],
     contractAddresses |-> dec.contractAddresses,
     userAddress |-> dec.address,
     startTimeStamp |-> dec.startTimeStamp,
     durationDays |-> dec.durationDays]

\* `await signer.signTypedData(...)` settles: with a signature, the request
\* goes to the relayer
handleDecrypt_signature(Texts) ==
    /\ dec.pc = "awaitSignature"
    /\ \/ \E m \in Signable, text \in Texts :
             LET signature == signTypedData(dec.address, m, text)
                 request == userDecryptRequest(signature)
             IN  /\ ui' = [ui EXCEPT !.statusMessage = "Requesting decryption from relayer..."]
                 /\ env' = [env EXCEPT !.requests = Append(@, request)]
                 /\ dec' = [dec EXCEPT !.pc = "awaitRelayer", !.signature = <<signature>>]
       \/ /\ DecryptFails("user rejected signing")
          /\ UNCHANGED env
    /\ UNCHANGED <<ledgerVars, last, wallet, instance, cache, clock, jn, mv>>

\* what userDecrypt resolves to for an accepted request: the plaintext of
\* each requested handle, by handle
userDecryptResult(request) ==
    [h \in {request.handleContractPairs[i].handle :
                i \in 1 .. Len(request.handleContractPairs)} |-> plain[h]]

reconstruct_swapped(decrypted, hx, hy) ==
    LET plainX == Number(decrypted[hy])
        plainY == Number(decrypted[hx])
    IN  <<plainX, plainY>>

\* plainX = Number(decrypted[contractHandles.x]), plainY likewise with y;
\* setDecryptedPosition({ x: plainX, y: plainY })
reconstruct(decrypted, hx, hy) ==
    LET plainX == Number(decrypted[hx])
        plainY == Number(decrypted[hy])
    IN  <<plainX, plainY>>

\* `await instance.userDecrypt(...)` settles
handleDecrypt_relayer ==
    /\ dec.pc = "awaitRelayer"
    /\ LET request == env.requests[Len(env.requests)]
           hx == dec.handles[1]
           hy == dec.handles[2]
       IN  \/ /\ RelayerAccepts(request)
              /\ ui' = [ui EXCEPT !.decryptedPosition =
                                      reconstruct(userDecryptResult(request), hx, hy),
                                  !.statusMessage = "", !.isDecrypting = FALSE]
              /\ dec' = IdleDecrypt
           \/ DecryptFails("Decryption failed")
    /\ UNCHANGED <<ledgerVars, last, wallet, instance, cache, env, clock, jn, mv>>

---------------------------------------------------------------------------
(* GridGameApp.handleJoin and handleMove, one action per run between awaits *)

\* an invocation of a handler as a call record: who asked, and how the
\* checks ended
InvokedAs(op, status) ==
    Call(op, wallet.address, wallet.address, status, <<>>, <<>>, <<>>)

\* handlers that have passed their checks and may still write to the ledger
Pending == (IF jn.pc = "idle" THEN 0 ELSE 1) + (IF mv.pc = "idle" THEN 0 ELSE 1)
\* a handler may start while the writes done and pending stay within
\* MaxSessionWrites
WriteRoom == Len(events) + Pending < MaxSessionWrites

\* playerJoined = Boolean(joined)
playerJoined == cache.joined = <<TRUE>>

\* the random bytes drawn for a joinGame sent by the session, and the
\* coordinates typed into the move form
SessionDraws == {9, 255}
SessionInputs == {<<7, 3>>, <<0, 42>>}

\* catch and finally of handleJoin
JoinFails(message) ==
    /\ ui' = [ui EXCEPT !.txError = message, !.statusMessage = "", !.isJoining = FALSE]
    /\ jn' = IdleJoin

\* the checks of handleJoin: the message of the first that fails, or NoError
JoinBlocked ==
    IF wallet.address = NoAddress THEN "Connect your wallet to start playing."
    ELSE IF ~wallet.signerPromise THEN "Wallet signer is unavailable."
    ELSE IF ~isContractConfigured
    THEN "Deploy EncryptedMapGame to Sepolia and update CONTRACT_ADDRESS."
    ELSE NoError

\* from the invocation to `await signerPromise`; the Join button is disabled
\* while isJoining
handleJoin ==
    /\ jn.pc = "idle"
    /\ IF JoinBlocked # NoError
       THEN /\ ui' = [ui EXCEPT !.txError = JoinBlocked]
            /\ last' = InvokedAs("handleJoin", "blocked")
            /\ UNCHANGED jn
       ELSE /\ WriteRoom
            /\ ui' = [ui EXCEPT !.txError = NoError,
                                !.statusMessage = "Waiting for wallet confirmation...",
                                !.isJoining = TRUE]
            /\ jn' = [pc |-> "awaitSigner", address |-> wallet.address]
            /\ last' = InvokedAs("handleJoin", "started")
    /\ UNCHANGED <<ledgerVars, wallet, instance, cache, dec, env, clock, mv>>

\* `await signerPromise` resolves: with a signer, contract.joinGame() is called
handleJoin_signer ==
    /\ jn.pc = "awaitSigner"
    /\ \/ /\ jn' = [jn EXCEPT !.pc = "awaitSend"]
          /\ UNCHANGED ui
       \/ JoinFails("Wallet signer is missing")
    /\ UNCHANGED <<ledgerVars, last, wallet, instance, cache, dec, env, clock, mv>>

\* `await contract.joinGame()` settles: the wallet sends the transaction, or
\* the user rejects it, or the gas estimate finds that it reverts
handleJoin_sent ==
    /\ jn.pc = "awaitSend"
    /\ \/ /\ ~players[jn.address].active
          /\ ui' = [ui EXCEPT !.statusMessage = "Confirming transaction..."]
          /\ jn' = [jn EXCEPT !.pc = "awaitMined"]
       \/ JoinFails("Join request failed")
    /\ UNCHANGED <<ledgerVars, last, wallet, instance, cache, dec, env, clock, mv>>

\* the transaction is mined and `await tx.wait()` settles
handleJoin_mined(Draws) ==
    /\ jn.pc = "awaitMined"
    /\ joinGame(jn.address, Draws)
    /\ IF last'.status = "ok"
       THEN /\ ui' = [ui EXCEPT !.statusMessage = "Player joined. Fetching map data..."]
            /\ jn' = [jn EXCEPT !.pc = "awaitRefetchJoined"]
       ELSE JoinFails("transaction reverted")
    /\ UNCHANGED <<wallet, instance, cache, dec, env, clock, mv>>

\* `await refetchJoined()` resolves
handleJoin_refetchedJoined ==
    /\ jn.pc = "awaitRefetchJoined"
    /\ hasJoined(wallet.address, wallet.address)
    /\ cache' = [cache EXCEPT !.joined = last'.out]
    /\ jn' = [jn EXCEPT !.pc = "awaitRefetchPosition"]
    /\ UNCHANGED <<wallet, instance, ui, dec, env, clock, mv>>

\* `await refetchPosition()` resolves; the handler ends
handleJoin_refetchedPosition ==
    /\ jn.pc = "awaitRefetchPosition"
    /\ getPlayerPosition(wallet.address, wallet.address)
    /\ cache' = [cache EXCEPT !.encryptedPosition =
                     IF last'.status = "ok" THEN last'.out ELSE @]
    /\ ui' = [ui EXCEPT !.statusMessage = "", !.isJoining = FALSE]
    /\ jn' = IdleJoin
    /\ UNCHANGED <<wallet, instance, dec, env, clock, mv>>

\* handleMove without its finally block
MoveFails_noFinally(message) ==
    /\ ui' = [ui EXCEPT !.txError = message, !.statusMessage = ""]
    /\ mv' = IdleMove

\* catch and finally of handleMove
MoveFails(message) ==
    /\ ui' = [ui EXCEPT !.txError = message, !.statusMessage = "", !.isMoving = FALSE]
    /\ mv' = IdleMove

MoveBlocked_instanceUnchecked ==
    IF wallet.address = NoAddress THEN "Connect your wallet to move."
    ELSE IF ~playerJoined THEN "Join the grid before moving."
    ELSE IF ~wallet.signerPromise THEN "Wallet signer is unavailable."
    ELSE IF ~isContractConfigured
    THEN "Deploy EncryptedMapGame to Sepolia and update CONTRACT_ADDRESS."
    ELSE NoError

\* the checks of handleMove: the message of the first that fails, or NoError
MoveBlocked ==
    IF wallet.address = NoAddress THEN "Connect your wallet to move."
    ELSE IF ~playerJoined THEN "Join the grid before moving."
    ELSE IF ~instance THEN "Encryption service is still starting."
    ELSE IF ~wallet.signerPromise THEN "Wallet signer is unavailable."
    ELSE IF ~isContractConfigured
    THEN "Deploy EncryptedMapGame to Sepolia and update CONTRACT_ADDRESS."
    ELSE NoError

\* the payload of instance.createEncryptedInput(CONTRACT_ADDRESS, address)
\* after add8(selectedX) and add8(selectedY)
createEncryptedInput(contractAddress, userAddress, x, y) ==
    [binding |-> <<contractAddress, userAddress>>, values |-> <<x, y>>]

\* from the form's submit event to `await payload.encrypt()`; the submit
\* button is disabled while isMoving
handleMove(Inputs) ==
    /\ mv.pc = "idle"
    /\ IF MoveBlocked # NoError
       THEN /\ ui' = [ui EXCEPT !.txError = MoveBlocked]
            /\ last' = InvokedAs("handleMove", "blocked")
            /\ UNCHANGED mv
       ELSE \E selected \in Inputs :
               /\ WriteRoom
               /\ ui' = [ui EXCEPT !.txError = NoError,
                                   !.statusMessage = "Encrypting coordinates...",
                                   !.isMoving = TRUE]
               /\ mv' = [pc |-> "awaitEncrypt", address |-> wallet.address,
                         payload |-> createEncryptedInput(CONTRACT_ADDRESS, wallet.address,
                                                          selected[1], selected[2]),
                         encryptedInput |-> <<>>]
               /\ last' = InvokedAs("handleMove", "started")
    /\ UNCHANGED <<ledgerVars, wallet, instance, cache, dec, env, clock, jn>>

\* `await payload.encrypt()` settles: the ciphertexts and their proof exist
handleMove_encrypted ==
    /\ mv.pc = "awaitEncrypt"
    /\ \/ /\ mv' = [mv EXCEPT !.pc = "awaitSigner", !.encryptedInput = <<mv.payload>>]
          /\ UNCHANGED ui
       \/ MoveFails("Move request failed")
    /\ UNCHANGED <<ledgerVars, last, wallet, instance, cache, dec, env, clock, jn>>

\* `await signerPromise` resolves: with a signer, contract.move is called
handleMove_signer ==
    /\ mv.pc = "awaitSigner"
    /\ \/ /\ mv' = [mv EXCEPT !.pc = "awaitSend"]
          /\ UNCHANGED ui
       \/ MoveFails("Wallet signer is missing")
    /\ UNCHANGED <<ledgerVars, last, wallet, instance, cache, dec, env, clock, jn>>

\* `await contract.move(handles[0], handles[1], inputProof)` settles: the
\* wallet sends the transaction, or the user rejects it, or the gas estimate
\* finds that it reverts
handleMove_sent ==
    /\ mv.pc = "awaitSend"
    /\ \/ /\ players[mv.address].active
          /\ ui' = [ui EXCEPT !.statusMessage = "Confirming move transaction..."]
          /\ mv' = [mv EXCEPT !.pc = "awaitMined"]
       \/ MoveFails("user rejected transaction")
    /\ UNCHANGED <<ledgerVars, last, wallet, instance, cache, dec, env, clock, jn>>

\* the transaction is mined and `await tx.wait()` settles; then
\* setDecryptedPosition(null)
handleMove_mined ==
    /\ mv.pc = "awaitMined"
    /\ LET input == mv.encryptedInput[1]
       IN  /\ move(mv.address, {input.values[1], input.values[2]}, {input.binding})
           /\ last'.status = "ok" => last'.in = input.values
    /\ IF last'.status = "ok"
       THEN /\ ui' = [ui EXCEPT !.statusMessage = "Position updated. Refreshing data...",
                                !.decryptedPosition = <<>>]
            /\ mv' = [mv EXCEPT !.pc = "awaitRefetch"]
       ELSE MoveFails("transaction reverted")
    /\ UNCHANGED <<wallet, instance, cache, dec, env, clock, jn>>

\* `await refetchPosition()` resolves; the handler ends
handleMove_refetched ==
    /\ mv.pc = "awaitRefetch"
    /\ getPlayerPosition(wallet.address, wallet.address)
    /\ cache' = [cache EXCEPT !.encryptedPosition =
                     IF last'.status = "ok" THEN last'.out ELSE @]
    /\ ui' = [ui EXCEPT !.statusMessage = "", !.isMoving = FALSE]
    /\ mv' = IdleMove
    /\ UNCHANGED <<wallet, instance, dec, env, clock, jn>>

---------------------------------------------------------------------------
(* Specifications *)

EmptyLedger ==
    [players |-> [a \in Address |-> [x |-> NoHandle, y |-> NoHandle, active |-> FALSE]],
     plain |-> <<>>,
     acl |-> <<>>,
     events |-> <<>>]

Init ==
    /\ players = EmptyLedger.players
    /\ plain = EmptyLedger.plain
    /\ acl = EmptyLedger.acl
    /\ events = EmptyLedger.events
    /\ last = NoCall
    /\ ClientInit

\* below MaxWrites every call is explored; at MaxWrites only the calls that
\* revert (a second joinGame, a move with a proof that does not verify)
Room == Len(events) < MaxWrites

JoinStep ==
    \E s \in Address :
        /\ Room \/ players[s].active
        /\ joinGame(s, DrawSamples)
MoveStep ==
    \E s \in Address :
        move(s, InputSamples,
             IF Room THEN ProofBindings ELSE ProofBindings \ {<<THIS, s>>})
HasJoinedStep == \E c \in Address, p \in Address : hasJoined(c, p)
GetPositionStep == \E c \in Address, p \in Address : getPlayerPosition(c, p)
GridBoundsStep == \E c \in Address : gridBounds(c)
DecryptStep == \E s \in Address, p \in Address : decryptPosition(s, p)

\* the ledger alone: no client session runs
Next ==
    \/ JoinStep /\ UNCHANGED clientVars
    \/ MoveStep /\ UNCHANGED clientVars
    \/ HasJoinedStep /\ UNCHANGED clientVars
    \/ GetPositionStep /\ UNCHANGED clientVars
    \/ GridBoundsStep /\ UNCHANGED clientVars
    \/ DecryptStep /\ UNCHANGED clientVars

Spec == Init /\ [][Next]_vars

(* SpecByte: one joinGame or move, with every 8-bit draw and every 8-bit   *)
(* input, on a ledger where alice has joined and possibly moved before     *)

AliceJoined == joinGameEffect(EmptyLedger, "alice", 9, 255)
AliceMoved == moveEffect(AliceJoined, "alice", 7, 42)

BytePreStates ==
    { joinGameEffect(EmptyLedger, "alice", 0, 9),
      AliceJoined,
      AliceMoved,
      moveEffect(AliceMoved, "alice", 0, 7) }

InitByte ==
    \E L \in BytePreStates :
        /\ players = L.players
        /\ plain = L.plain
        /\ acl = L.acl
        /\ events = L.events
        /\ last = NoCall
        /\ ClientInit

JoinByteStep == \E s \in Address : joinGame(s, Byte)
MoveByteStep == \E s \in Address : move(s, Byte, ProofBindings)

NextByte ==
    \/ last = NoCall /\ JoinByteStep /\ UNCHANGED clientVars
    \/ last = NoCall /\ MoveByteStep /\ UNCHANGED clientVars

SpecByte == InitByte /\ [][NextByte]_vars

(* SpecClient: one browser session of GridGameApp reading and decrypting   *)
(* over a ledger on which alice and bob have joined                        *)

ClientLedger == joinGameEffect(AliceJoined, "bob", 0, 9)

InitClient ==
    /\ players = ClientLedger.players
    /\ plain = ClientLedger.plain
    /\ acl = ClientLedger.acl
    /\ events = ClientLedger.events
    /\ last = NoCall
    /\ ClientInit

NextClient ==
    \/ \E a \in Address : ConnectWallet(a)
    \/ SignerReady
    \/ InstanceReady
    \/ FetchJoined
    \/ FetchPosition
    \/ Tick
    \/ handleDecrypt
    \/ handleDecrypt_signer
    \/ handleDecrypt_signature(SignerTexts)
    \/ handleDecrypt_relayer

SpecClient == InitClient /\ [][NextClient]_vars

(* SpecSession: one browser session of alice from page load, joining,     *)
(* moving and decrypting, its handlers interleaved at their awaits         *)

InitSession ==
    \E L \in {EmptyLedger, AliceJoined} :
        /\ players = L.players
        /\ plain = L.plain
        /\ acl = L.acl
        /\ events = L.events
        /\ last = NoCall
        /\ ClientInit

NextSession ==
    \/ ConnectWallet("alice")
    \/ SignerReady
    \/ InstanceReady
    \/ FetchJoined
    \/ FetchPosition
    \/ handleJoin
    \/ handleJoin_signer
    \/ handleJoin_sent
    \/ handleJoin_mined(SessionDraws)
    \/ handleJoin_refetchedJoined
    \/ handleJoin_refetchedPosition
    \/ handleMove(SessionInputs)
    \/ handleMove_encrypted
    \/ handleMove_signer
    \/ handleMove_sent
    \/ handleMove_mined
    \/ handleMove_refetched
    \/ handleDecrypt
    \/ handleDecrypt_signer
    \/ handleDecrypt_signature(SignerTexts)
    \/ handleDecrypt_relayer

SpecSession == InitSession /\ [][NextSession]_vars

\* the one draw and the one form input of the sessions of SpecHandlers
HandlerDraws == {255}
HandlerInputs == {<<0, 42>>}

\* the steps that continue an invocation after one of its awaits
JoinContinues ==
    \/ handleJoin_signer
    \/ handleJoin_sent
    \/ handleJoin_mined(HandlerDraws)
    \/ handleJoin_refetchedJoined
    \/ handleJoin_refetchedPosition
MoveContinues ==
    \/ handleMove_encrypted
    \/ handleMove_signer
    \/ handleMove_sent
    \/ handleMove_mined
    \/ handleMove_refetched
DecryptContinues ==
    \/ handleDecrypt_signer
    \/ handleDecrypt_signature(SignerTexts)
    \/ handleDecrypt_relayer

\* every external call a handler awaits responds: an invocation waits at one
\* await at a time, and the step that continues it is eventually taken
ExternalCallsRespond ==
    /\ WF_vars(JoinContinues)
    /\ WF_vars(MoveContinues)
    /\ WF_vars(DecryptContinues)

(* SpecHandlers: the three handlers of a session whose wallet, signer,     *)
(* encryption instance and queries are ready, with the fairness that every *)
(* awaited external call responds                                          *)

\* the page of alice once its hooks and queries have settled, over ledger L
SessionLoaded(L) ==
    /\ players = L.players
    /\ plain = L.plain
    /\ acl = L.acl
    /\ events = L.events
    /\ wallet = [address |-> "alice", signerPromise |-> TRUE]
    /\ instance = TRUE
    /\ ui = [isJoining |-> FALSE, isMoving |-> FALSE, isDecrypting |-> FALSE,
             statusMessage |-> "", txError |-> NoError, decryptedPosition |-> <<>>]
    /\ dec = IdleDecrypt
    /\ env = [keypairs |-> 0, messages |-> <<>>, requests |-> <<>>]
    /\ clock = 0
    /\ jn = IdleJoin
    /\ mv = IdleMove

InitHandlers ==
    \/ /\ SessionLoaded(EmptyLedger)
       /\ cache = [joined |-> <<FALSE>>, encryptedPosition |-> <<>>]
       /\ last = Call("hasJoined", "alice", "alice", "ok", <<>>, <<>>, <<FALSE>>)
    \/ /\ SessionLoaded(AliceJoined)
       /\ cache = [joined |-> <<TRUE>>, encryptedPosition |-> <<1, 2>>]
       /\ last = Call("getPlayerPosition", "alice", "alice", "ok", <<>>, <<>>, <<1, 2>>)

NextHandlers ==
    \/ handleJoin
    \/ handleJoin_signer
    \/ handleJoin_sent
    \/ handleJoin_mined(HandlerDraws)
    \/ handleJoin_refetchedJoined
    \/ handleJoin_refetchedPosition
    \/ handleMove(HandlerInputs)
    \/ handleMove_encrypted
    \/ handleMove_signer
    \/ handleMove_sent
    \/ handleMove_mined
    \/ handleMove_refetched
    \/ handleDecrypt
    \/ handleDecrypt_signer
    \/ handleDecrypt_signature(SignerTexts)
    \/ handleDecrypt_relayer

SpecHandlers == InitHandlers /\ [][NextHandlers]_vars /\ ExternalCallsRespond

(* SpecSignature: the one step of handleDecrypt that takes the signer's     *)
(* answer, from a session in which alice waits for her signature, over      *)
(* every signature string of the bounded set; then the relayer's answer     *)

AliceAwaitsSignature ==
    LET eip712 == createEIP712(1, {CONTRACT_ADDRESS}, 0, 10)
    IN  /\ wallet = [address |-> "alice", signerPromise |-> TRUE]
        /\ instance = TRUE
        /\ cache = [joined |-> <<TRUE>>,
                    encryptedPosition |-> <<ClientLedger.players["alice"].x,
                                            ClientLedger.players["alice"].y>>]
        /\ ui = [isJoining |-> FALSE, isMoving |-> FALSE, isDecrypting |-> TRUE,
                 statusMessage |-> "Preparing secure channel...", txError |-> NoError,
                 decryptedPosition |-> <<>>]
        /\ dec = [pc |-> "awaitSignature", address |-> "alice",
                  handles |-> cache.encryptedPosition,
                  keypair |-> generateKeypair(1), startTimeStamp |-> 0,
                  durationDays |-> 10, contractAddresses |-> {CONTRACT_ADDRESS},
                  eip712 |-> eip712, signature |-> <<>>]
        /\ env = [keypairs |-> 1, messages |-> <<eip712>>, requests |-> <<>>]
        /\ clock = 0
        /\ jn = IdleJoin
        /\ mv = IdleMove

InitSignature ==
    /\ players = ClientLedger.players
    /\ plain = ClientLedger.plain
    /\ acl = ClientLedger.acl
    /\ events = ClientLedger.events
    /\ last = Call("handleDecrypt", "alice", "alice", "started", <<>>, <<>>, <<>>)
    /\ AliceAwaitsSignature

NextSignature ==
    \/ handleDecrypt_signature(AllSignerTexts)
    \/ handleDecrypt_relayer

SpecSignature == InitSignature /\ [][NextSignature]_vars

---------------------------------------------------------------------------
(* Properties *)

InGrid(v) == MIN_COORDINATE <= v /\ v <= MAX_COORDINATE

MinOf(a, b) == IF a <= b THEN a ELSE b
MaxOf(a, b) == IF a >= b THEN a ELSE b
\* clamp(v) = min(max(v, 1), 10)
Clamped(v) == MinOf(MaxOf(v, 1), 10)

\* the plaintext pair behind the position stored for a
Decrypted(a) == <<plain[players[a].x], plain[players[a].y]>>

\* C1: a decryption requested by an identity other than the one whose
\* position handles are asked for never returns plaintext: the handles of
\* the position stored for a are allowed to the ledger and to a only, and
\* decrypt-position for a run by another signer fails and returns nothing.
C1_NoForeignPlaintext ==
    \A a \in Address :
        players[a].active =>
            /\ acl[players[a].x] \subseteq {THIS, a}
            /\ acl[players[a].y] \subseteq {THIS, a}
            /\ (last.op = "decryptPosition" /\ last.target = a /\ last.sender # a)
                   => (last.status = "DecryptionFailed" /\ last.out = <<>>)

\* bob, who has joined and moved, asks for alice's stored position and fails
C1_Witness ==
    /\ players["alice"].active
    /\ players["bob"].active
    /\ Len(events) >= 3
    /\ last.op = "decryptPosition"
    /\ last.sender = "bob"
    /\ last.target = "alice"
    /\ last.in = <<players["alice"].x, players["alice"].y>>
    /\ last.status = "DecryptionFailed"

\* C2: in every reachable state, the position stored for an active
\* identity decrypts to a pair of values in [1, 10].
C2_ActiveInGrid ==
    \A a \in Address :
        players[a].active =>
            /\ players[a].x \in Handles
            /\ players[a].y \in Handles
            /\ InGrid(Decrypted(a)[1])
            /\ InGrid(Decrypted(a)[2])

\* a state reached by a move whose inputs were out of range on both axes
C2_Witness ==
    /\ last.op = "move"
    /\ last.status = "ok"
    /\ last.in = <<42, 0>>
    /\ Decrypted(last.sender) = <<10, 1>>
    /\ \E b \in Address \ {last.sender} : players[b].active

\* C3: right after a successful move(x, y) the stored position decrypts to
\* (min(max(x,1),10), min(max(y,1),10)), whatever was stored before.
C3_MoveStoresClamp ==
    (last.op = "move" /\ last.status = "ok") =>
        Decrypted(last.sender) = <<Clamped(last.in[1]), Clamped(last.in[2])>>

\* move(0, 42) after an earlier join and two earlier moves gives (1, 10)
C3_Witness ==
    /\ last.op = "move"
    /\ last.status = "ok"
    /\ last.in = <<0, 42>>
    /\ Decrypted(last.sender) = <<1, 10>>
    /\ Len(events) = 4

\* the event log holds no PlayerJoined event of a
NeverJoined(a) ==
    \A i \in 1 .. Len(events) : events[i] # [name |-> "PlayerJoined", player |-> a]

\* C4: a joinGame by an identity that is already active fails with
\* PlayerAlreadyJoined and leaves the players map, the ciphertexts, the
\* access lists and the event log as they were.
C4_SecondJoinReverts ==
    [][\A a \in Address :
          (players[a].active /\ last'.op = "joinGame" /\ last'.sender = a)
              => /\ last'.status = "PlayerAlreadyJoined"
                 /\ players' = players
                 /\ plain' = plain
                 /\ acl' = acl
                 /\ events' = events]_vars

\* alice joined, moved, and then had a second joinGame rejected
C4_Witness ==
    /\ last.op = "joinGame"
    /\ last.sender = "alice"
    /\ last.status = "PlayerAlreadyJoined"
    /\ players["alice"].active
    /\ events = <<[name |-> "PlayerJoined", player |-> "alice"],
                  [name |-> "PlayerMoved", player |-> "alice"]>>

\* C5: for an identity that has never joined, getPlayerPosition (from any
\* caller) and move (by that identity) fail with PlayerNotRegistered, change
\* nothing on the ledger and leave the identity inactive.
C5_UnjoinedRejected ==
    [][\A a \in Address :
          (/\ NeverJoined(a)
           /\ \/ (last'.op = "move" /\ last'.sender = a)
              \/ (last'.op = "getPlayerPosition" /\ last'.target = a))
              => /\ last'.status = "PlayerNotRegistered"
                 /\ last'.out = <<>>
                 /\ UNCHANGED ledgerVars
                 /\ ~players'[a].active]_vars

\* bob never joined and his move was rejected while alice is on the grid
C5_Witness ==
    /\ NeverJoined("bob")
    /\ players["alice"].active
    /\ last.op = "move"
    /\ last.sender = "bob"
    /\ last.status = "PlayerNotRegistered"

\* C6: for every 8-bit draw r on each axis joinGame stores (r mod 10) + 1,
\* the 32-bit sum fitting in 8 bits, so the position lies in [1, 10].
C6_JoinStoresDraw ==
    (last.op = "joinGame" /\ last.status = "ok") =>
        /\ Decrypted(last.sender) = <<(last.in[1] % 10) + 1, (last.in[2] % 10) + 1>>
        /\ InGrid(Decrypted(last.sender)[1])
        /\ InGrid(Decrypted(last.sender)[2])
        /\ \A i \in 1 .. 2 :
              FHE_add32(FHE_rem(last.in[i], MAX_COORDINATE), MIN_COORDINATE) < Uint8Mod

\* bob joined with the draws 255 and 249: (6, 10)
C6_Witness ==
    /\ last.op = "joinGame"
    /\ last.status = "ok"
    /\ last.sender = "bob"
    /\ last.in = <<255, 249>>
    /\ Decrypted("bob") = <<6, 10>>

\* C7: an identity becomes active only by its own successful joinGame, and
\* once active it stays active, with a stored position, in every later state.
C7_ActiveOneWay ==
    [][\A a \in Address :
          /\ players[a].active =>
                /\ players'[a].active
                /\ players'[a].x # NoHandle
                /\ players'[a].y # NoHandle
          /\ (~players[a].active /\ players'[a].active) =>
                /\ last'.op = "joinGame"
                /\ last'.sender = a
                /\ last'.status = "ok"]_vars

\* alice joined first, two more writes followed, then a move was rejected
C7_Witness ==
    /\ Len(events) >= 3
    /\ events[1] = [name |-> "PlayerJoined", player |-> "alice"]
    /\ players["alice"].active
    /\ last.op = "move"
    /\ last.status = "InvalidProof"

\* C8: both handles stored for an active identity have the ledger and that
\* identity in their access lists, so the identity may decrypt its position.
C8_OwnerAllowed ==
    \A a \in Address :
        players[a].active =>
            /\ {THIS, a} \subseteq acl[players[a].x]
            /\ {THIS, a} \subseteq acl[players[a].y]
            /\ UserDecryptAllowed(players[a].x, THIS, a)
            /\ UserDecryptAllowed(players[a].y, THIS, a)

\* bob decrypted the position his move stored
C8_Witness ==
    /\ last.op = "decryptPosition"
    /\ last.sender = "bob"
    /\ last.target = "bob"
    /\ last.status = "ok"
    /\ last.out = Decrypted("bob")
    /\ events[Len(events)] = [name |-> "PlayerMoved", player |-> "bob"]

\* C9: a move by an active identity with handles and proof not made for this
\* ledger and this identity is rejected with InvalidProof and changes
\* nothing; a move that succeeds had a valid proof and committed as a whole.
C9_InvalidProofRejected ==
    [][\A a \in Address :
          (players[a].active /\ last'.op = "move" /\ last'.sender = a) =>
              IF last'.proof = <<THIS, a>>
              THEN /\ last'.status = "ok"
                   /\ players'[a].x \notin {NoHandle, players[a].x}
                   /\ players'[a].y \notin {NoHandle, players[a].y}
                   /\ {THIS, a} \subseteq acl'[players'[a].x]
                   /\ {THIS, a} \subseteq acl'[players'[a].y]
                   /\ events' = Append(events, [name |-> "PlayerMoved", player |-> a])
              ELSE /\ last'.status = "InvalidProof"
                   /\ UNCHANGED ledgerVars]_vars

\* alice's move with ciphertexts encrypted for bob was rejected
C9_Witness ==
    /\ players["alice"].active
    /\ players["bob"].active
    /\ last.op = "move"
    /\ last.sender = "alice"
    /\ last.proof = <<THIS, "bob">>
    /\ last.status = "InvalidProof"

\* every PlayerJoined event is the first event of its player in the log, and
\* the later events of that player are PlayerMoved events
JoinedOnceAndFirst(log) ==
    \A i \in 1 .. Len(log) :
        log[i].name = "PlayerJoined" =>
            \A j \in 1 .. Len(log) :
                (j # i /\ log[j].player = log[i].player)
                    => (i < j /\ log[j].name = "PlayerMoved")

\* C10: a successful joinGame appends exactly PlayerJoined(sender), a
\* successful move exactly PlayerMoved(sender), every other call leaves the
\* log as it is; so each identity has at most one PlayerJoined event, before
\* all its PlayerMoved events.
C10_Events ==
    [][/\ (last'.op = "joinGame" /\ last'.status = "ok") =>
              events' = Append(events, [name |-> "PlayerJoined", player |-> last'.sender])
       /\ (last'.op = "move" /\ last'.status = "ok") =>
              events' = Append(events, [name |-> "PlayerMoved", player |-> last'.sender])
       /\ (last'.status # "ok" \/ last'.op \notin {"joinGame", "move"}) =>
              events' = events
       /\ events' # events =>
              /\ \A i \in 1 .. Len(events') : DOMAIN events'[i] = {"name", "player"}
              /\ JoinedOnceAndFirst(events')]_vars

\* alice joined and moved twice, and her last failing call logged nothing
C10_Witness ==
    /\ events = <<[name |-> "PlayerJoined", player |-> "alice"],
                  [name |-> "PlayerMoved", player |-> "alice"],
                  [name |-> "PlayerMoved", player |-> "alice"]>>
    /\ last.op = "joinGame"
    /\ last.status = "PlayerAlreadyJoined"

\* what an observer of the ledger sees: the active flags and the event log
PublicView == [active |-> [a \in Address |-> players[a].active], events |-> events]

\* the outcome and the public view that follow from the public view v and
\* the public part of a call alone: who calls what for whom, and whether the
\* proof verifies; no draw, no plaintext, no ciphertext is read
PublicStep(v, op, sender, target, proofOk) ==
    CASE op = "joinGame" ->
            IF v.active[sender]
            THEN [status |-> "PlayerAlreadyJoined", out |-> <<>>, view |-> v]
            ELSE [status |-> "ok", out |-> <<>>,
                  view |-> [active |-> [v.active EXCEPT ![sender] = TRUE],
                            events |-> Append(v.events,
                                [name |-> "PlayerJoined", player |-> sender])]]
      [] op = "move" ->
            IF ~v.active[sender]
            THEN [status |-> "PlayerNotRegistered", out |-> <<>>, view |-> v]
            ELSE IF ~proofOk
            THEN [status |-> "InvalidProof", out |-> <<>>, view |-> v]
            ELSE [status |-> "ok", out |-> <<>>,
                  view |-> [v EXCEPT !.events = Append(v.events,
                                [name |-> "PlayerMoved", player |-> sender])]]
      [] op = "hasJoined" ->
            [status |-> "ok", out |-> <<v.active[target]>>, view |-> v]
      [] op = "getPlayerPosition" ->
            [status |-> IF v.active[target] THEN "ok" ELSE "PlayerNotRegistered",
             out |-> <<>>, view |-> v]
      [] OTHER -> [status |-> "ok", out |-> <<>>, view |-> v]

LedgerOps == {"joinGame", "move", "hasJoined", "getPlayerPosition"}

\* C11: the outcome of every joinGame, move and read, the event log and the
\* hasJoined results are a function of the earlier public view and of the
\* public part of the call; hence two executions with the same calls, callers
\* and proof validity agree on them whatever the draws and plaintexts are.
C11_PublicViewIgnoresSecrets ==
    [][last'.op \in LedgerOps =>
          LET r == PublicStep(PublicView, last'.op, last'.sender, last'.target,
                              last'.proof = <<THIS, last'.sender>>)
          IN  /\ last'.status = r.status
              /\ PublicView' = r.view
              /\ last'.op = "hasJoined" => last'.out = r.out]_vars

\* alice and bob hold different positions, bob's from an out-of-range move
C11_Witness ==
    /\ players["alice"].active
    /\ players["bob"].active
    /\ Decrypted("alice") # Decrypted("bob")
    /\ last.op = "move"
    /\ last.sender = "bob"
    /\ last.status = "ok"
    /\ last.in = <<42, 0>>
    /\ events[Len(events)] = [name |-> "PlayerMoved", player |-> "bob"]

\* C12: a joinGame or move by one identity, successful or not, leaves the
\* record of every other identity (active, x, y), the plaintexts and access
\* lists of the handles that existed as they were, and allows the other
\* identity on no new handle.
C12_OtherRecordsUntouched ==
    [][\A b \in Address :
          (last'.op \in {"joinGame", "move"} /\ last'.sender # b) =>
              /\ players'[b] = players[b]
              /\ \A h \in Handles : acl'[h] = acl[h] /\ plain'[h] = plain[h]
              /\ \A h \in (Len(acl) + 1) .. Len(acl') : b \notin acl'[h]]_vars

\* alice joined first, bob joined, then alice moved: bob keeps handles 3, 4
C12_Witness ==
    /\ events = <<[name |-> "PlayerJoined", player |-> "alice"],
                  [name |-> "PlayerJoined", player |-> "bob"],
                  [name |-> "PlayerMoved", player |-> "alice"]>>
    /\ last.op = "move"
    /\ last.sender = "alice"
    /\ last.status = "ok"
    /\ players["bob"] = [x |-> 3, y |-> 4, active |-> TRUE]
    /\ {h \in Handles : "bob" \in acl[h]} = {3, 4}

\* C13: getPlayerPosition(i) for an active i succeeds for every caller and
\* returns the two handles stored for i, whoever the caller is.
C13_PermissionlessRead ==
    (last.op = "getPlayerPosition" /\ players[last.target].active) =>
        /\ last.status = "ok"
        /\ last.out = <<players[last.target].x, players[last.target].y>>

\* bob, who never joined, read the handles of the position alice moved to
C13_Witness ==
    /\ last.op = "getPlayerPosition"
    /\ last.sender = "bob"
    /\ last.target = "alice"
    /\ last.status = "ok"
    /\ ~players["bob"].active
    /\ events[Len(events)] = [name |-> "PlayerMoved", player |-> "alice"]
    /\ last.out = <<players["alice"].x, players["alice"].y>>

\* C14: no step removes a grantee from a handle or forgets a handle: whoever
\* is allowed on a handle stays allowed on it, so the handles of positions a
\* later move replaced remain decryptable by their owner.
C14_GrantsOnlyGrow ==
    [][/\ Len(acl') >= Len(acl)
       /\ \A h \in Handles : acl[h] \subseteq acl'[h]]_vars

\* alice has moved twice; the handles of her first position are still hers
C14_Witness ==
    /\ events = <<[name |-> "PlayerJoined", player |-> "alice"],
                  [name |-> "PlayerMoved", player |-> "alice"],
                  [name |-> "PlayerMoved", player |-> "alice"]>>
    /\ players["alice"].x = 5
    /\ UserDecryptAllowed(1, THIS, "alice")
    /\ UserDecryptAllowed(2, THIS, "alice")
    /\ last.op = "move"

\* C15: hasJoined(p), whoever calls it, returns true exactly when the log
\* holds a PlayerJoined event of p, that is when a joinGame by p has
\* succeeded; hasJoined, getPlayerPosition and gridBounds change nothing,
\* whether they succeed or fail.
C15_ReadsArePure ==
    [][/\ last'.op = "hasJoined" =>
              /\ last'.status = "ok"
              /\ last'.out = <<~NeverJoined(last'.target)>>
       /\ last'.op \in {"hasJoined", "getPlayerPosition", "gridBounds"} =>
              UNCHANGED ledgerVars]_vars

\* alice, on the grid, asked about bob, who is not
C15_Witness ==
    /\ last.op = "hasJoined"
    /\ last.sender = "alice"
    /\ last.target = "bob"
    /\ last.out = <<FALSE>>
    /\ players["alice"].active
    /\ NeverJoined("bob")

\* C16: a successful move whose plaintext x and y both lie in [1, 10]
\* stores exactly (x, y).
C16_InRangeUnchanged ==
    (/\ last.op = "move"
     /\ last.status = "ok"
     /\ InGrid(last.in[1])
     /\ InGrid(last.in[2]))
        => Decrypted(last.sender) = <<last.in[1], last.in[2]>>

\* move(7, 8) by alice stored (7, 8)
C16_Witness ==
    /\ last.op = "move"
    /\ last.sender = "alice"
    /\ last.status = "ok"
    /\ last.in = <<7, 8>>
    /\ Decrypted("alice") = <<7, 8>>

\* the request the relayer is working on, or worked on last
LastRequest == env.requests[Len(env.requests)]

\* the signature submitted with a request is over another ephemeral public
\* key than the one submitted with it
KeySubstituted(req) == req.signature.message.publicKey # req.publicKey

\* C17: a decryption request whose signature is over an authorization message
\* with a different ephemeral public key than the submitted one fails: the
\* relayer returns no plaintext, the handler ends in its error branch and the
\* displayed position is left as it was.
C17_SubstitutedKeyFails ==
    [][(/\ dec.pc = "awaitRelayer"
        /\ dec'.pc = "idle"
        /\ KeySubstituted(LastRequest))
       => /\ ui'.decryptedPosition = ui.decryptedPosition
          /\ ui'.txError = "Decryption failed"]_vars

\* a first request succeeded and shows a position; the second request carried
\* a signature over the first request's key and was refused
C17_Witness ==
    /\ dec.pc = "idle"
    /\ Len(env.requests) = 2
    /\ KeySubstituted(LastRequest)
    /\ ~KeySubstituted(env.requests[1])
    /\ ui.txError = "Decryption failed"
    /\ Len(ui.decryptedPosition) = 2

\* C18: every handleDecrypt invocation generates its own ephemeral keypair:
\* no two authorization messages and no two relayer requests of a session,
\* retries after a failed signing or relayer step included, use the same
\* keypair, and once the invocation has ended none of its locals (keypair,
\* authorization message, signature) is kept.
C18_FreshKeypairPerRequest ==
    /\ \A i, j \in 1 .. Len(env.messages) :
           i # j => env.messages[i].publicKey # env.messages[j].publicKey
    /\ \A i, j \in 1 .. Len(env.requests) :
           i # j => /\ env.requests[i].publicKey # env.requests[j].publicKey
                    /\ env.requests[i].privateKey # env.requests[j].privateKey
    /\ dec.pc = "idle" => dec = IdleDecrypt

\* a first invocation failed before reaching the relayer, the retry built a
\* second authorization message and its request is with the relayer
C18_Witness ==
    /\ Len(env.messages) = 2
    /\ Len(env.requests) = 1
    /\ dec.pc = "awaitRelayer"
    /\ LastRequest.publicKey = env.messages[2].publicKey

\* C19: in every request that reaches the relayer, the public key, the
\* contract scope, the start timestamp and the duration (10 days) submitted
\* are those of the authorization message the same invocation gave the
\* identity to sign, the private key is the pair of that public key, and the
\* requester is the identity the requested handles were issued to.
C19_RequestMatchesSignedMessage ==
    [][(dec.pc = "awaitSignature" /\ dec'.pc = "awaitRelayer")
       => LET req == env'.requests[Len(env'.requests)]
          IN  /\ req.publicKey = dec.eip712.publicKey
              /\ req.contractAddresses = dec.eip712.contractAddresses
              /\ req.startTimeStamp = dec.eip712.startTimeStamp
              /\ req.durationDays = dec.eip712.durationDays
              /\ req.durationDays = 10
              /\ \E n \in 1 .. env.keypairs :
                     generateKeypair(n) =
                         [publicKey |-> req.publicKey, privateKey |-> req.privateKey]
              /\ \A i \in 1 .. Len(req.handleContractPairs) :
                     acl[req.handleContractPairs[i].handle] \cap Address
                         = {req.userAddress}]_vars

\* a request is with the relayer, signed over its own message, while the
\* clock has advanced and the wallet has switched to the other account since
\* the invocation
C19_Witness ==
    /\ dec.pc = "awaitRelayer"
    /\ LastRequest.signature.message = dec.eip712
    /\ clock > LastRequest.startTimeStamp
    /\ wallet.address # LastRequest.userAddress

\* the session, the identity, the x handle, the y handle or the signer is absent
Absent ==
    \/ ~instance
    \/ wallet.address = NoAddress
    \/ Len(cache.encryptedPosition) < 1
    \/ Len(cache.encryptedPosition) < 2
    \/ ~wallet.signerPromise

\* C20: while any of the encryption session, the identity, the x handle, the
\* y handle or the signer is absent, a decryption request ends with the
\* missing-context error and changes nothing else: no keypair is generated,
\* no message is given to the signer, no request goes to the relayer, the busy
\* flag stays down and the displayed position stays as it was.
C20_MissingContextStopsEarly ==
    [][(dec.pc = "idle" /\ Absent)
       => /\ dec' = dec
          /\ env' = env
          /\ ~ui'.isDecrypting
          /\ (last'.op = "handleDecrypt" /\ last' # last)
                => /\ last'.status = "MissingContext"
                   /\ ui' = [ui EXCEPT !.txError =
                                "Missing encryption context for decryption."]]_vars

\* a decryption was asked for with session, identity and handles present but
\* no signer; the position shown by an earlier decryption is still shown
C20_Witness ==
    /\ last = Invoked("MissingContext")
    /\ ui.txError = "Missing encryption context for decryption."
    /\ instance
    /\ Len(cache.encryptedPosition) = 2
    /\ ~wallet.signerPromise
    /\ Len(ui.decryptedPosition) = 2
    /\ env.keypairs = 1

\* C22: gridBounds() returns (1, 10) in every state, whatever joins and moves
\* came before, without changing the ledger; and these are the bounds of the
\* clamp: every stored position lies between them, and the clamp maps each
\* bound to itself and the value just outside to the bound.
C22_GridBoundsConstant ==
    [][last'.op = "gridBounds" =>
          LET minCoordinate == last'.out[1]
              maxCoordinate == last'.out[2]
          IN  /\ last'.status = "ok"
              /\ last'.out = <<1, 10>>
              /\ Ledger' = Ledger
              /\ \A a \in Address :
                    players[a].active =>
                        /\ minCoordinate <= Decrypted(a)[1]
                        /\ Decrypted(a)[1] <= maxCoordinate
                        /\ minCoordinate <= Decrypted(a)[2]
                        /\ Decrypted(a)[2] <= maxCoordinate
              /\ _clampCoordinate(minCoordinate) = minCoordinate
              /\ _clampCoordinate(minCoordinate - 1) = minCoordinate
              /\ _clampCoordinate(maxCoordinate) = maxCoordinate
              /\ _clampCoordinate(maxCoordinate + 1) = maxCoordinate]_vars

\* gridBounds is read after alice landed on the lower and the upper bound by a
\* move that was clamped on both coordinates
C22_Witness ==
    /\ last.op = "gridBounds"
    /\ last.out = <<1, 10>>
    /\ players["alice"].active
    /\ Decrypted("alice") = <<1, 10>>
    /\ Len(events) >= 2

\* select(v < 1, 1, v), then select(low > 10, 10, low)
TwoStepClamp(v) ==
    LET low == IF v < 1 THEN 1 ELSE v
    IN  IF low > 10 THEN 10 ELSE low

\* (random_u8 mod 10) + 1
RawCandidate(r) == (r % 10) + 1

\* the ledger after a join that clamps its random coordinates as move clamps
\* its inputs
ClampingJoin(L, sender, r1, r2) ==
    StorePosition(L, sender, _clampCoordinate(_randomCoordinate(r1)),
                  _clampCoordinate(_randomCoordinate(r2)), "PlayerJoined")

\* C26: for every pair of random bytes, the position stored by joinGame is
\* the two-step clamp of the raw candidates (r mod 10) + 1, and the ledger
\* after the join is the ledger a join that clamps like move would leave:
\* joinGame calls no clamp, and none is missed, the candidates being in range.
C26_JoinAsIfClamped ==
    [][(last'.op = "joinGame" /\ last'.status = "ok") =>
          LET r1 == last'.in[1]
              r2 == last'.in[2]
          IN  /\ plain'[players'[last'.sender].x] = TwoStepClamp(RawCandidate(r1))
              /\ plain'[players'[last'.sender].y] = TwoStepClamp(RawCandidate(r2))
              /\ Ledger' = ClampingJoin(Ledger, last'.sender, r1, r2)]_vars

\* bob joined with the draws 9 and 250, the candidates on the two bounds
C26_Witness ==
    /\ last.op = "joinGame"
    /\ last.status = "ok"
    /\ last.in = <<9, 250>>
    /\ Decrypted(last.sender) = <<10, 1>>

\* C27: an identity that is not active has no stored position (both handles
\* unset) and no access grant, in every reachable state; and no step, failing
\* joins, moves and reads included, writes a coordinate or a grant for an
\* identity that is not active after the step.
C27_InactiveHasNoPosition ==
    /\ [](\A a \in Address :
            ~players[a].active =>
                /\ players[a].x = NoHandle
                /\ players[a].y = NoHandle
                /\ \A h \in Handles : a \notin acl[h])
    /\ [][(players' # players \/ acl' # acl) =>
          \A a \in Address :
            (\/ players'[a].x # players[a].x
             \/ players'[a].y # players[a].y
             \/ \E h \in 1 .. Len(acl') :
                   a \in acl'[h] /\ (h > Len(acl) \/ a \notin acl[h]))
                => players'[a].active]_vars

\* alice holds a position; bob, who never joined, has just had a move
\* rejected and still has neither handles nor grants
C27_Witness ==
    /\ last.op = "move"
    /\ last.sender = "bob"
    /\ last.status = "PlayerNotRegistered"
    /\ players["alice"].active
    /\ players["bob"] = [x |-> NoHandle, y |-> NoHandle, active |-> FALSE]
    /\ Len(plain) >= 4

\* C25: the signature string sent to the relayer is the string the signer
\* returned without its leading 0x when it has one, and the returned string
\* itself otherwise: every character after the prefix is sent as it is, and
\* the signature is still the same signer's over the same message.
C25_SignatureSentWithoutPrefix ==
    [][(dec.pc = "awaitSignature" /\ dec'.pc = "awaitRelayer") =>
          LET returned == dec'.signature[1]
              sent == env'.requests[Len(env'.requests)].signature
              prefixed == /\ Len(returned.text) >= 2
                          /\ returned.text[1] = "0"
                          /\ returned.text[2] = "x"
          IN  /\ prefixed =>
                    /\ Len(sent.text) = Len(returned.text) - 2
                    /\ \A i \in 1 .. Len(sent.text) : sent.text[i] = returned.text[i + 2]
              /\ ~prefixed => sent.text = returned.text
              /\ sent.by = returned.by
              /\ sent.message = returned.message]_vars

\* the signer returned 0x01f and 01f is with the relayer
C25_Witness ==
    /\ dec.pc = "awaitRelayer"
    /\ dec.signature[1].text = <<"0", "x", "0", "1", "f">>
    /\ LastRequest.signature.text = <<"0", "1", "f">>

\* the step is a relayer answer that handleDecrypt takes as a success
DecryptSucceeds == dec.pc = "awaitRelayer" /\ dec'.pc = "idle" /\ ui'.txError = NoError

\* C24: on a successful relayer response the displayed position is the pair
\* (plaintext of the first handle of the request, plaintext of the second),
\* in that order, for exactly the two handles of that request; the two
\* handles are the x and the y handle one position of the requester was
\* stored under, and the pair is that position's plaintext.
C24_ReconstructedInOrder ==
    [][DecryptSucceeds =>
          LET req == LastRequest
              hx == req.handleContractPairs[1].handle
              hy == req.handleContractPairs[2].handle
              u == req.userAddress
          IN  /\ Len(req.handleContractPairs) = 2
              /\ ui'.decryptedPosition = <<plain[hx], plain[hy]>>
              /\ <<hx, hy>> = <<players[u].x, players[u].y>>
              /\ ui'.decryptedPosition = Decrypted(u)]_vars

\* alice's position (10, 6), with different coordinates, is on display after
\* a successful decryption of her handles
C24_Witness ==
    /\ dec.pc = "idle"
    /\ ui.txError = NoError
    /\ Len(env.requests) = 1
    /\ LastRequest.userAddress = "alice"
    /\ ui.decryptedPosition = <<10, 6>>

\* the orders in which handleDecrypt passes from one await to the next, or ends
DecryptOrder ==
    {<<"idle", "awaitSigner">>, <<"awaitSigner", "awaitSignature">>,
     <<"awaitSignature", "awaitRelayer">>, <<"awaitSigner", "idle">>,
     <<"awaitSignature", "idle">>, <<"awaitRelayer", "idle">>}

\* C23: handleDecrypt runs keypair -> authorization message -> signature ->
\* relayer request -> reconstruction: a running invocation has its keypair and
\* its message, a request is sent only in the step that received a signature
\* and carries that signature, the display changes only on a successful relayer
\* answer, and a failing step (no signer, signing rejected, relayer error) ends
\* the invocation with an error message, sends nothing more and leaves the
\* displayed position as it was.
C23_DecryptInOrder ==
    /\ [](dec.pc # "idle" =>
            /\ dec.keypair = generateKeypair(env.keypairs)
            /\ dec.eip712.publicKey = dec.keypair.publicKey
            /\ env.messages[Len(env.messages)] = dec.eip712)
    /\ [](dec.pc = "awaitRelayer" =>
            /\ Len(dec.signature) = 1
            /\ LastRequest.signature.by = dec.signature[1].by
            /\ LastRequest.signature.message = dec.signature[1].message)
    /\ [][/\ dec'.pc # dec.pc => <<dec.pc, dec'.pc>> \in DecryptOrder
          /\ env'.messages # env.messages =>
                /\ dec.pc = "idle" /\ dec'.pc = "awaitSigner"
                /\ env'.keypairs = env.keypairs + 1
          /\ env'.requests # env.requests =>
                /\ dec.pc = "awaitSignature" /\ dec'.pc = "awaitRelayer"
                /\ Len(dec.signature) = 0 /\ Len(dec'.signature) = 1
          /\ ui'.decryptedPosition # ui.decryptedPosition => DecryptSucceeds
          /\ (dec.pc # "idle" /\ dec'.pc = "idle" /\ ~DecryptSucceeds) =>
                /\ ui'.txError # NoError
                /\ ui'.decryptedPosition = ui.decryptedPosition
                /\ ~ui'.isDecrypting
                /\ env' = env
                /\ dec' = IdleDecrypt]_vars

\* a first decryption succeeded and shows a position; the second ended at the
\* signer: its message was built, no second request was sent, the error is
\* shown and the position is still on display
C23_Witness ==
    /\ dec.pc = "idle"
    /\ ui.txError = "Wallet signer is missing"
    /\ Len(env.messages) = 2
    /\ Len(env.requests) = 1
    /\ Len(ui.decryptedPosition) = 2

\* C21: a move attempted while the encryption session has not finished
\* initialising fails at the handler's checks: an error message is set, no
\* encrypted input is created (the invocation never leaves its idle
\* position, so no ciphertext exists and no transaction is sent), the busy
\* flag is not raised and the ledger is unchanged. For a connected identity
\* that has joined, the message is the one of the unavailable encryption
\* service.
EncryptionUnavailable == "Encryption service is still starting."
SessionMoved ==
    \E i \in 1 .. Len(events) :
        events[i] = [name |-> "PlayerMoved", player |-> wallet.address]

\* C28: once a move of the session has completed successfully (its
\* transaction is stored and its handler has finished), the decrypted
\* position on display is empty or is the plaintext of the position that
\* move stored, whatever decryption was in flight during the move.
C28_NoStaleDisplay ==
    (SessionMoved /\ mv.pc = "idle") =>
        \/ ui.decryptedPosition = <<>>
        \/ ui.decryptedPosition = Decrypted(wallet.address)

\* the steps at which an invocation of a handler ends
JoinEnds == jn.pc # "idle" /\ jn'.pc = "idle"
MoveEnds == mv.pc # "idle" /\ mv'.pc = "idle"
DecryptEnds == dec.pc # "idle" /\ dec'.pc = "idle"

\* the ends that come after the last statement of the try block
JoinCompletes == jn.pc = "awaitRefetchPosition" /\ jn'.pc = "idle"
MoveCompletes == mv.pc = "awaitRefetch" /\ mv'.pc = "idle"
DecryptCompletes ==
    /\ dec.pc = "awaitRelayer" /\ dec'.pc = "idle"
    /\ RelayerAccepts(LastRequest)
    /\ ui'.decryptedPosition =
           reconstruct(userDecryptResult(LastRequest), dec.handles[1], dec.handles[2])
    /\ ui'.txError = ui.txError

\* C29: every invocation of handleJoin, handleMove or handleDecrypt that has
\* passed its checks eventually ends, given that each external call it
\* awaits responds; the step that ends it leaves its busy flag false and the
\* status message empty, and unless the invocation completed, an error
\* message is set.
C29_HandlersFinish ==
    /\ (jn.pc # "idle") ~> (jn.pc = "idle")
    /\ (mv.pc # "idle") ~> (mv.pc = "idle")
    /\ (dec.pc # "idle") ~> (dec.pc = "idle")
    /\ [][/\ JoinEnds =>
                /\ ~ui'.isJoining
                /\ ui'.statusMessage = ""
                /\ JoinCompletes \/ ui'.txError # NoError
          /\ MoveEnds =>
                /\ ~ui'.isMoving
                /\ ui'.statusMessage = ""
                /\ MoveCompletes \/ ui'.txError # NoError
          /\ DecryptEnds =>
                /\ ~ui'.isDecrypting
                /\ ui'.statusMessage = ""
                /\ DecryptCompletes \/ ui'.txError # NoError]_vars

\* a move failed at the wallet while a decryption was in flight, and both
\* handlers have ended: no flag is raised, the status is empty and the move's
\* error is on display
C29_Witness ==
    /\ jn.pc = "idle" /\ mv.pc = "idle" /\ dec.pc = "idle"
    /\ Len(env.requests) = 1
    /\ ui.txError = "user rejected transaction"
    /\ ~ui.isJoining /\ ~ui.isMoving /\ ~ui.isDecrypting
    /\ ui.statusMessage = ""

=============================================================================
